---------------------------- MODULE Spec2Model ----------------------------
(***************************************************************************)
(* Model of kremblin_model.py: the scorer calculate_bbb_score and the     *)
(* batch pipeline process_csv.                                             *)
(*                                                                         *)
(* Numbers.  Python floats are carried as follows.                         *)
(*   - a float argument is a record [k |-> "fin", v |-> n] (the integer   *)
(*     value n), PosInf or NegInf;                                         *)
(*   - B8 is an exact rational num/den (molecular weights are perfect      *)
(*     squares, so mw ** -0.5 is rational), or the complex number Python   *)
(*     produces for a negative base;                                       *)
(*   - every gate is decided exactly, on integers;                         *)
(*   - a sub-score is the exact rational value of its formula, floored to  *)
(*     a multiple of 10^-7 (Unit); the composite score is held in half     *)
(*     units (5 * 10^-8) so that the weights 1.5 and 0.5 lose nothing.     *)
(***************************************************************************)
EXTENDS Integers, Sequences, FiniteSets, TLC

VARIABLES
    args,               \* scorer harness: the descriptor set passed in
    result,             \* scorer harness: outcome of calculate_bbb_score
    pc,                 \* process_csv: position in the function
    input_exists,       \* environment: open(input_file) succeeds
    output_mode,        \* environment: how open(output_file, 'w') ends
    fieldnames,         \* reader.fieldnames (None for an empty file)
    infile,             \* the data rows the reader yields, in order
    row_idx,            \* number of data rows consumed by the loop
    rows_with_scores,   \* the list built by the loop
    outfile,            \* destination file: opened or not, and its lines
    printed             \* everything print() has emitted, in order

vars == <<args, result, pc, input_exists, output_mode, fieldnames, infile,
          row_idx, rows_with_scores, outfile, printed>>

scorerVars == <<args, result>>
csvVars == <<pc, input_exists, output_mode, fieldnames, infile, row_idx,
             rows_with_scores, outfile, printed>>

(***************************************************************************)
(* Bounds of the model.                                                    *)
(***************************************************************************)
MaxRings == 5
MaxAcceptors == 8
MaxDonors == 1
MaxRows == 2

(***************************************************************************)
(* Number representation.                                                  *)
(***************************************************************************)
Unit == 10^7

Fin(n) == [k |-> "fin", v |-> n]
PosInf == [k |-> "inf", v |-> 0]
NegInf == [k |-> "-inf", v |-> 0]

RECURSIVE FixDigits(_, _, _)
\* floor(r * 10^k / den) for 0 <= r < den, by long division.
FixDigits(r, den, k) ==
    IF k = 0 THEN 0
    ELSE LET t == r * 10
         IN (t \div den) * 10^(k-1) + FixDigits(t % den, den, k - 1)

\* floor((num / den) * Unit): the rational num/den in units of 10^-7.
Fix(num, den) ==
    (num \div den) * Unit + FixDigits(num % den, den, 7)

RECURSIVE Gcd(_, _)
Gcd(a, b) == IF b = 0 THEN a ELSE Gcd(b, a % b)

\* The exact square root of a perfect square.
Sqrt(n) == CHOOSE s \in 1..n : s * s = n

(***************************************************************************)
(* calculate_bbb_score                                                     *)
(***************************************************************************)

\* Mutant of C3Score: the last table entry also serves every larger count.
C3ScoreClamped(aro_r) ==
    CASE aro_r = 0 -> 3363760
      [] aro_r = 1 -> 8160160
      [] aro_r = 2 -> Unit
      [] aro_r = 3 -> 6911150
      [] aro_r >= 4 -> 1993990
      [] OTHER -> 0

\* C3: Aromatic Rings score (a lookup).
C3Score(aro_r) ==
    CASE aro_r = 0 -> 3363760
      [] aro_r = 1 -> 8160160
      [] aro_r = 2 -> Unit
      [] aro_r = 3 -> 6911150
      [] aro_r = 4 -> 1993990
      [] OTHER -> 0

\* (1/0.624231) * (0.0000443*ha^3 - 0.004556*ha^2 + 0.12775*ha - 0.463)
C4Poly(ha) ==
    Fix(443 * ha^3 - 45560 * ha^2 + 1277500 * ha - 4630000, 6242310)

\* Mutant of C4Score: the lower gate is strict.
C4ScoreStrict(ha) ==
    IF ha < 5 \/ ha > 45 THEN 0 ELSE C4Poly(ha)

\* C4: Heavy Atoms score.
C4Score(ha) ==
    IF ha <= 5 \/ ha > 45 THEN 0 ELSE C4Poly(ha)

\* mw ** (-0.5) as float_pow computes it.
PowNegHalf(mw) ==
    CASE mw.k = "inf" -> [k |-> "rat", num |-> 0, den |-> 1]
      [] mw.k = "-inf" -> [k |-> "rat", num |-> 0, den |-> 1]
      [] mw.k = "fin" /\ mw.v = 0 -> [k |-> "ZeroDivisionError"]
      [] mw.k = "fin" /\ mw.v < 0 -> [k |-> "complex"]
      [] OTHER -> [k |-> "rat", num |-> 1, den |-> Sqrt(mw.v)]

\* B8: mw**(-0.5) * (hba + hbd).
B8(mw, hba, hbd) ==
    LET p == PowNegHalf(mw)
    IN IF p.k = "rat"
       THEN [k |-> "rat", num |-> p.num * (hba + hbd), den |-> p.den]
       ELSE p

\* (1/0.72258) * (26.733*b8^3 - 31.495*b8^2 + 9.5202*b8 - 0.1358)
\* at b8 = n/s, which is 10 * P / (36129 * s^3) with
\* P = 133665 n^3 - 157475 n^2 s + 47601 n s^2 - 679 s^3.
C8Poly(b8) ==
    LET n == b8.num
        s == b8.den
        P == 133665 * n^3 - 157475 * n^2 * s + 47601 * n * s^2 - 679 * s^3
        g == Gcd(10, s^3)
    IN Fix((10 \div g) * P, 36129 * (s^3 \div g))

\* b8 <= 0.05 or b8 > 0.45
C8Gate(b8) ==
    \/ 20 * b8.num <= b8.den
    \/ 20 * b8.num > 9 * b8.den

\* C8: MWHBN score.
C8Score(b8) ==
    IF C8Gate(b8) THEN 0 ELSE C8Poly(b8)

\* Mutant of C9Score: the zero gate is tpsa <= 0.
C9ScoreNonPositive(tpsa) ==
    IF tpsa.k = "inf" \/ (tpsa.k = "fin" /\ (tpsa.v <= 0 \/ tpsa.v > 120))
    THEN 0
    ELSE Fix(9598 - 67 * tpsa.v, 9598)

\* C9: TPSA score.
C9Score(tpsa) ==
    IF tpsa.k = "inf" \/ (tpsa.k = "fin" /\ (tpsa.v = 0 \/ tpsa.v > 120))
    THEN 0
    ELSE Fix(9598 - 67 * tpsa.v, 9598)

\* (1/0.597488) * (0.00045068*pka^4 - 0.016331*pka^3 + 0.18618*pka^2
\*                 - 0.71043*pka + 0.8579)
C10Poly(p) ==
    Fix(45068 * p^4
          + 100 * (857900 - 710430 * p + 186180 * p^2 - 16331 * p^3),
        59748800)

\* C10: pKa score.
C10Score(pka) ==
    IF pka.k = "inf" \/ pka.k = "-inf" \/ pka.v <= 3 \/ pka.v > 11
    THEN 0
    ELSE C10Poly(pka.v)

\* Mutant of Composite: the weights of C8 and C9 are exchanged.
CompositeSwapped(c3, c4, c8, c9, c10) ==
    2 * c3 + 2 * c4 + 4 * c8 + 3 * c9 + c10

\* C11: c3 + c4 + c8 * 1.5 + c9 * 2 + c10 * 0.5, in half units.
Composite(c3, c4, c8, c9, c10) ==
    2 * c3 + 2 * c4 + 3 * c8 + 4 * c9 + c10

Raise(e) == [kind |-> "raise", exc |-> e]

calculate_bbb_score(aro_r, ha, mw, hba, hbd, tpsa, pka) ==
    LET c3 == C3Score(aro_r)
        c4 == C4Score(ha)
        b8 == B8(mw, hba, hbd)
    IN CASE b8.k = "ZeroDivisionError" -> Raise("ZeroDivisionError")
         [] b8.k = "complex" -> Raise("TypeError")
         [] OTHER ->
              LET c8 == C8Score(b8)
                  c9 == C9Score(tpsa)
                  c10 == C10Score(pka)
              IN [kind |-> "value", c3 |-> c3, c4 |-> c4, c8 |-> c8,
                  c9 |-> c9, c10 |-> c10,
                  bbb_score |-> Composite(c3, c4, c8, c9, c10)]

(***************************************************************************)
(* Scorer harness: one call of calculate_bbb_score on a descriptor set.    *)
(***************************************************************************)
RingValues == -1..MaxRings
HeavyValues == {5, 6, 20, 45, 46}
WeightValues == {NegInf, Fin(-10), Fin(0), Fin(100), Fin(400)}
AcceptorValues == -1..MaxAcceptors
DonorValues == 0..MaxDonors
TpsaValues == {Fin(-10), Fin(0), Fin(60), Fin(120), Fin(121)}
PkaValues == {Fin(3), Fin(4), Fin(7), Fin(11), Fin(12)}

Descriptors ==
    [aro_r : RingValues, ha : HeavyValues, mw : WeightValues,
     hba : AcceptorValues, hbd : DonorValues, tpsa : TpsaValues,
     pka : PkaValues]

Pending == [kind |-> "pending"]

(***************************************************************************)
(* process_csv: cells, rows and the csv module's dictionaries.             *)
(*                                                                         *)
(* A cell is the text of one CSV field: a decimal numeral with one         *)
(* fractional digit (Num, held in tenths), the text "inf", the empty       *)
(* text, any other text (Text, numbered), or a six-decimal numeral (Dec6,  *)
(* held in millionths).  NoneCell is Python's None, the DictReader's value *)
(* for a field the row is too short to hold.  In the rows of this model    *)
(* the float columns mw, tpsa and pka hold whole numbers.                  *)
(***************************************************************************)
Num(t) == [t |-> "num", v |-> t]
Text(i) == [t |-> "text", v |-> i]
InfCell == [t |-> "inf", v |-> 0]
EmptyCell == [t |-> "empty", v |-> 0]
NoneCell == [t |-> "none", v |-> 0]
Dec6(m) == [t |-> "dec6", v |-> m]

\* reader.fieldnames of a file without a header line.
None == <<"<None>">>

Required == <<"aro_r", "ha", "mw", "hba", "hbd", "tpsa", "pka">>
CountFields == {"aro_r", "ha", "hba", "hbd"}

Range(seq) == {seq[i] : i \in DOMAIN seq}
IndexOf(seq, x) == CHOOSE i \in DOMAIN seq : seq[i] = x

\* csv.DictReader.__next__: zip the fieldnames with the row's cells; surplus
\* cells go under restkey (None), missing ones are restval (None).
DictReader(names, cells) ==
    [d |-> [key \in Range(names) |->
              IF IndexOf(names, key) <= Len(cells)
              THEN cells[IndexOf(names, key)]
              ELSE NoneCell],
     rest |-> IF Len(cells) > Len(names)
              THEN SubSeq(cells, Len(names) + 1, Len(cells))
              ELSE <<>>]

Ok(v) == [kind |-> "ok", val |-> v]

\* float(x) for a cell x.
ToFloat(cell) ==
    CASE cell.t = "none" -> Raise("TypeError")
      [] cell.t = "text" -> Raise("ValueError")
      [] cell.t = "empty" -> Raise("ValueError")
      [] cell.t = "inf" -> Ok(PosInf)
      [] OTHER -> Ok([k |-> "fin10", v |-> cell.v])

\* int(f) for a float f: truncation toward zero.
ToInt(f) ==
    IF f.k # "fin10" THEN Raise("OverflowError")
    ELSE Ok(IF f.v >= 0 THEN f.v \div 10 ELSE -((-f.v) \div 10))

\* A parsed float as the scorer's argument.
Whole(f) == IF f.k = "fin10" THEN Fin(f.v \div 10) ELSE f

\* row[key] converted as lines 103-109 convert it.
Field(row, key) ==
    IF key \notin DOMAIN row.d THEN Raise("KeyError")
    ELSE LET f == ToFloat(row.d[key])
         IN IF f.kind = "raise" THEN f
            ELSE IF key \in CountFields THEN ToInt(f.val)
            ELSE Ok(Whole(f.val))

RECURSIVE FirstRaise(_, _)
\* The first conversion of lines 103-109 that raises, from field i on.
FirstRaise(row, i) ==
    IF i > Len(Required) THEN Ok(0)
    ELSE LET f == Field(row, Required[i])
         IN IF f.kind = "raise" THEN f ELSE FirstRaise(row, i + 1)

\* f"{score:.6f}": the score, held in half units, rounded to millionths.
FormatScore(score) == Dec6((score + 10) \div 20)

\* Mutant of RowNum: the header is not counted.
RowNumFromOne(idx) == idx + 1

\* enumerate(reader, start=2)
RowNum(idx) == idx + 2

\* The body of the loop on one row: the exception it raises, or the score.
RowOutcome(row) ==
    LET bad == FirstRaise(row, 1)
    IN IF bad.kind = "raise" THEN bad
       ELSE calculate_bbb_score(
                Field(row, "aro_r").val, Field(row, "ha").val,
                Field(row, "mw").val, Field(row, "hba").val,
                Field(row, "hbd").val, Field(row, "tpsa").val,
                Field(row, "pka").val)

\* row['bbb_score'] = f"{score:.6f}"
WithScore(row, score) ==
    [d |-> [key \in DOMAIN row.d \cup {"bbb_score"} |->
              IF key = "bbb_score" THEN FormatScore(score) ELSE row.d[key]],
     rest |-> row.rest]

\* except (ValueError, KeyError)
Caught(exc) == exc \in {"ValueError", "KeyError"}

\* csv.DictWriter._dict_to_list and the writer: one output line.
DictToList(names, row) ==
    [i \in 1..Len(names) |->
        IF row.d[names[i]] = NoneCell THEN EmptyCell ELSE row.d[names[i]]]

\* extrasaction='raise': the row holds a key that is no fieldname.
WrongFields(row) == row.rest # <<>>

RECURSIVE WrittenRows(_, _, _)
\* writer.writerows: the lines written until a row raises ValueError.
WrittenRows(names, rows, i) ==
    IF i > Len(rows) \/ WrongFields(rows[i]) THEN <<>>
    ELSE <<DictToList(names, rows[i])>> \o WrittenRows(names, rows, i + 1)

Msg(m, n, why) == [msg |-> m, n |-> n, why |-> why]
Closed == [opened |-> FALSE, header |-> <<>>, rows |-> <<>>]

\* print(...)
Emit(m) == printed' = Append(printed, m)

(***************************************************************************)
(* Input tables of the model.                                              *)
(***************************************************************************)
AllColumns == Range(Required) \cup {"name", "bbb_score"}

ContentA ==
    [c \in AllColumns |->
        CASE c = "name" -> Text(1)
          [] c = "bbb_score" -> Text(9)
          [] c = "aro_r" -> Num(20)
          [] c = "ha" -> Num(200)
          [] c = "mw" -> Num(4000)
          [] c = "hba" -> Num(30)
          [] c = "hbd" -> Num(10)
          [] c = "tpsa" -> Num(600)
          [] OTHER -> Num(70)]

ContentB ==
    [c \in AllColumns |->
        CASE c = "name" -> Text(2)
          [] c = "bbb_score" -> EmptyCell
          [] c = "aro_r" -> Num(27)
          [] c = "ha" -> Num(60)
          [] c = "mw" -> Num(1000)
          [] c = "hba" -> Num(10)
          [] c = "hbd" -> Num(0)
          [] c = "tpsa" -> InfCell
          [] OTHER -> Num(120)]

With(content, column, cell) == [content EXCEPT ![column] = cell]

Contents ==
    {ContentA, ContentB,
     With(ContentA, "mw", Text(3)),
     With(ContentA, "aro_r", EmptyCell),
     With(ContentA, "pka", Text(3)),
     With(ContentA, "ha", InfCell),
     With(ContentA, "mw", Num(0)),
     With(ContentA, "mw", Num(-100))}

FullRow(names, content) == [i \in 1..Len(names) |-> content[names[i]]]
ShortRow(names) == SubSeq(FullRow(names, ContentA), 1, Len(names) - 1)
LongRow(names) == Append(FullRow(names, ContentA), Text(4))

Rows(names) ==
    {FullRow(names, c) : c \in Contents} \cup {ShortRow(names), LongRow(names)}

Headers ==
    {<<"name", "aro_r", "ha", "mw", "hba", "hbd", "tpsa", "pka">>,
     <<"aro_r", "ha", "mw", "hba", "hbd", "tpsa", "pka", "bbb_score">>,
     <<"name", "aro_r", "ha", "mw", "hba", "hbd", "tpsa">>}

SeqsUpTo(S, n) == UNION {[1..k -> S] : k \in 0..n}

OutputModes == {"ok", "missing_dir", "denied"}

CsvIdle ==
    /\ pc = "idle"
    /\ input_exists = TRUE
    /\ output_mode = "ok"
    /\ fieldnames = None
    /\ infile = <<>>
    /\ row_idx = 0
    /\ rows_with_scores = <<>>
    /\ outfile = Closed
    /\ printed = <<>>

InitScore ==
    /\ args \in Descriptors
    /\ result = Pending
    /\ CsvIdle

Calculate ==
    /\ result = Pending
    /\ result' = calculate_bbb_score(args.aro_r, args.ha, args.mw, args.hba,
                                     args.hbd, args.tpsa, args.pka)
    /\ UNCHANGED <<args, csvVars>>

NextScore == Calculate

SpecScore == InitScore /\ [][NextScore]_vars

(***************************************************************************)
(* process_csv                                                             *)
(***************************************************************************)
Init ==
    /\ args = <<>>
    /\ result = Pending
    /\ pc = "start"
    /\ input_exists \in BOOLEAN
    /\ output_mode \in OutputModes
    /\ fieldnames \in Headers \cup {None}
    /\ infile \in IF input_exists /\ fieldnames # None
                  THEN SeqsUpTo(Rows(fieldnames), MaxRows)
                  ELSE {<<>>}
    /\ input_exists = FALSE => fieldnames = None
    /\ row_idx = 0
    /\ rows_with_scores = <<>>
    /\ outfile = Closed
    /\ printed = <<>>

\* open(input_file) raises FileNotFoundError.
OpenInputMissing ==
    /\ pc = "start"
    /\ ~input_exists
    /\ Emit(Msg("not_found", 0, "FileNotFoundError"))
    /\ pc' = "done"
    /\ UNCHANGED <<scorerVars, input_exists, output_mode, fieldnames, infile,
                   row_idx, rows_with_scores, outfile>>

\* fieldnames is None.
OpenInputEmpty ==
    /\ pc = "start"
    /\ input_exists
    /\ fieldnames = None
    /\ Emit(Msg("empty", 0, ""))
    /\ pc' = "done"
    /\ UNCHANGED <<scorerVars, input_exists, output_mode, fieldnames, infile,
                   row_idx, rows_with_scores, outfile>>

\* Mutant of OpenInputOk: the destination is opened with the source.
OpenInputOkTruncating ==
    /\ pc = "start"
    /\ input_exists
    /\ fieldnames # None
    /\ pc' = "rows"
    /\ outfile' = [opened |-> TRUE, header |-> <<>>, rows |-> <<>>]
    /\ UNCHANGED <<scorerVars, input_exists, output_mode, fieldnames, infile,
                   row_idx, rows_with_scores, printed>>

OpenInputOk ==
    /\ pc = "start"
    /\ input_exists
    /\ fieldnames # None
    /\ pc' = "rows"
    /\ UNCHANGED <<scorerVars, input_exists, output_mode, fieldnames, infile,
                   row_idx, rows_with_scores, outfile, printed>>

\* One iteration of the loop that reaches line 118.
ProcessRowScored ==
    /\ pc = "rows"
    /\ row_idx < Len(infile)
    /\ LET row == DictReader(fieldnames, infile[row_idx + 1])
           out == RowOutcome(row)
       IN /\ out.kind = "value"
          /\ rows_with_scores' =
                 Append(rows_with_scores, WithScore(row, out.bbb_score))
          /\ Emit(Msg("score", RowNum(row_idx), ""))
    /\ row_idx' = row_idx + 1
    /\ UNCHANGED <<scorerVars, pc, input_exists, output_mode, fieldnames,
                   infile, outfile>>

\* One iteration that ends in the inner handler (lines 120-122).
ProcessRowSkipped ==
    /\ pc = "rows"
    /\ row_idx < Len(infile)
    /\ LET out == RowOutcome(DictReader(fieldnames, infile[row_idx + 1]))
       IN /\ out.kind = "raise"
          /\ Caught(out.exc)
          /\ Emit(Msg("skip", RowNum(row_idx), out.exc))
    /\ row_idx' = row_idx + 1
    /\ UNCHANGED <<scorerVars, pc, input_exists, output_mode, fieldnames,
                   infile, rows_with_scores, outfile>>

\* One iteration whose exception the inner handler does not catch: it
\* reaches the outer handler (lines 135-136).
ProcessRowAborted ==
    /\ pc = "rows"
    /\ row_idx < Len(infile)
    /\ LET out == RowOutcome(DictReader(fieldnames, infile[row_idx + 1]))
       IN /\ out.kind = "raise"
          /\ ~Caught(out.exc)
          /\ Emit(Msg("error", 0, out.exc))
    /\ row_idx' = row_idx + 1
    /\ pc' = "done"
    /\ UNCHANGED <<scorerVars, input_exists, output_mode, fieldnames, infile,
                   rows_with_scores, outfile>>

\* Mutant of WriteOpenFails: the summary follows the diagnostic.
WriteOpenFailsThenSummary ==
    /\ pc = "rows"
    /\ row_idx = Len(infile)
    /\ output_mode # "ok"
    /\ printed' = printed \o <<Msg("error", 0, "OSError"),
                               Msg("summary", Len(rows_with_scores), "")>>
    /\ pc' = "done"
    /\ UNCHANGED <<scorerVars, input_exists, output_mode, fieldnames, infile,
                   row_idx, rows_with_scores, outfile>>

\* open(output_file, 'w') raises: FileNotFoundError goes to the handler of
\* line 133, any other OSError to the handler of line 135.
WriteOpenFails ==
    /\ pc = "rows"
    /\ row_idx = Len(infile)
    /\ output_mode # "ok"
    /\ Emit(IF output_mode = "missing_dir"
            THEN Msg("not_found", 0, "FileNotFoundError")
            ELSE Msg("error", 0, "OSError"))
    /\ pc' = "done"
    /\ UNCHANGED <<scorerVars, input_exists, output_mode, fieldnames, infile,
                   row_idx, rows_with_scores, outfile>>

\* writer.writerows raises ValueError on a row with a surplus key.
WriteRowsFails ==
    /\ pc = "rows"
    /\ row_idx = Len(infile)
    /\ output_mode = "ok"
    /\ \E i \in DOMAIN rows_with_scores : WrongFields(rows_with_scores[i])
    /\ LET output_fieldnames == fieldnames \o <<"bbb_score">>
       IN outfile' = [opened |-> TRUE, header |-> output_fieldnames,
                      rows |-> WrittenRows(output_fieldnames,
                                           rows_with_scores, 1)]
    /\ Emit(Msg("error", 0, "ValueError"))
    /\ pc' = "done"
    /\ UNCHANGED <<scorerVars, input_exists, output_mode, fieldnames, infile,
                   row_idx, rows_with_scores>>

\* Lines 124-131 without an exception.
WriteOutputOk ==
    /\ pc = "rows"
    /\ row_idx = Len(infile)
    /\ output_mode = "ok"
    /\ \A i \in DOMAIN rows_with_scores : ~WrongFields(rows_with_scores[i])
    /\ LET output_fieldnames == fieldnames \o <<"bbb_score">>
       IN outfile' = [opened |-> TRUE, header |-> output_fieldnames,
                      rows |-> WrittenRows(output_fieldnames,
                                           rows_with_scores, 1)]
    /\ printed' = printed \o <<Msg("summary", Len(rows_with_scores), ""),
                               Msg("saved", 0, "")>>
    /\ pc' = "done"
    /\ UNCHANGED <<scorerVars, input_exists, output_mode, fieldnames, infile,
                   row_idx, rows_with_scores>>

Next ==
    \/ OpenInputMissing
    \/ OpenInputEmpty
    \/ OpenInputOk
    \/ ProcessRowScored
    \/ ProcessRowSkipped
    \/ ProcessRowAborted
    \/ WriteOpenFails
    \/ WriteRowsFails
    \/ WriteOutputOk

Spec == Init /\ [][Next]_vars

(***************************************************************************)
(* Properties of calculate_bbb_score (checked under SpecScore).            *)
(***************************************************************************)
Returned == result.kind = "value"

NonPositive(mw) == mw.k = "-inf" \/ (mw.k = "fin" /\ mw.v <= 0)

\* C1: for every descriptor set with molecular_weight <= 0 the call ends in
\* an error and never returns a score.
C1_DomainError ==
    (result # Pending /\ NonPositive(args.mw)) => result.kind = "raise"

RingTable == <<3363760, 8160160, 10000000, 6911150, 1993990>>

\* C6: the aromatic-ring sub-score is 0.336376, 0.816016, 1.0, 0.691115,
\* 0.199399 for 0..4 rings and 0 for every other integer, whatever the
\* other six descriptors are.
C6_RingLookup ==
    Returned =>
        result.c3 = IF args.aro_r \in 0..4
                    THEN RingTable[args.aro_r + 1]
                    ELSE 0

C6_Witness ==
    /\ Returned
    /\ args.aro_r = -1
    /\ result.c3 = 0
    /\ result.c4 > 0
    /\ result.c8 > 0

\* C7: C4 is 0 when heavy_atoms <= 5 or > 45 and the cubic otherwise; C8 is
\* 0 when B8 <= 0.05 or B8 > 0.45 and the cubic otherwise; C10 is 0 when
\* pka <= 3 or pka > 11 and the quartic otherwise.
C7_Gates ==
    Returned =>
        /\ result.c4 = IF args.ha <= 5 \/ args.ha > 45
                       THEN 0 ELSE C4Poly(args.ha)
        /\ args.mw.k = "fin" =>
               LET n == args.hba + args.hbd
                   s == Sqrt(args.mw.v)
               IN result.c8 = IF 20 * n <= s \/ 20 * n > 9 * s
                              THEN 0
                              ELSE C8Poly([k |-> "rat", num |-> n, den |-> s])
        /\ result.c10 = IF args.pka.v <= 3 \/ args.pka.v > 11
                        THEN 0 ELSE C10Poly(args.pka.v)

C7_Witness ==
    /\ Returned
    /\ args.ha = 45 /\ result.c4 > 0
    /\ args.mw = Fin(400) /\ args.hba + args.hbd = 9 /\ result.c8 > 0
    /\ args.pka = Fin(11) /\ result.c10 > 0

\* C8: C9 is 0 when tpsa = 0 or tpsa > 120 and the linear value
\* (9598 - 67*tpsa)/9598 for every other tpsa; a negative tpsa is not gated
\* and gives a C9 above 1.
C8_TpsaGate ==
    Returned =>
        /\ result.c9 = IF args.tpsa.v = 0 \/ args.tpsa.v > 120
                       THEN 0
                       ELSE Fix(9598 - 67 * args.tpsa.v, 9598)
        /\ args.tpsa.v < 0 => result.c9 > Unit

C8_Witness ==
    /\ Returned
    /\ args.tpsa = Fin(-10)
    /\ result.c9 > Unit

\* C9: with molecular_weight > 0 the returned score is
\* C3 + C4 + 1.5*C8 + 2*C9 + 0.5*C10 (here doubled, the score being held in
\* half units), each sub-score a function of its own descriptors only; when
\* all five are gated to zero the score is 0.
C9_Composite ==
    (Returned /\ ~NonPositive(args.mw)) =>
        /\ result.c3 = C3Score(args.aro_r)
        /\ result.c4 = C4Score(args.ha)
        /\ result.c8 = C8Score(B8(args.mw, args.hba, args.hbd))
        /\ result.c9 = C9Score(args.tpsa)
        /\ result.c10 = C10Score(args.pka)
        /\ result.bbb_score =
               2 * result.c3 + 2 * result.c4 + 3 * result.c8
                 + 4 * result.c9 + result.c10
        /\ (result.c3 = 0 /\ result.c4 = 0 /\ result.c8 = 0
              /\ result.c9 = 0 /\ result.c10 = 0) => result.bbb_score = 0

C9_Witness ==
    /\ Returned
    /\ args.mw = Fin(400)
    /\ result.c3 > 0 /\ result.c4 > 0 /\ result.c8 > 0
    /\ result.c9 > 0 /\ result.c10 > 0
    /\ result.bbb_score > 2 * result.c3

(***************************************************************************)
(* Properties of process_csv (checked under Spec).                         *)
(***************************************************************************)
Finished == pc = "done"

HasAllColumns == \A i \in DOMAIN Required : Required[i] \in Range(fieldnames)

CellOf(cells, key) ==
    IF IndexOf(fieldnames, key) <= Len(cells)
    THEN cells[IndexOf(fieldnames, key)]
    ELSE NoneCell

\* Every required field of the row is a number the scorer accepts.
WellFormedRow(cells) ==
    /\ \A i \in DOMAIN Required :
          LET c == CellOf(cells, Required[i])
          IN \/ c.t = "num"
             \/ c.t = "inf" /\ Required[i] \notin CountFields
    /\ CellOf(cells, "mw").t = "num" => CellOf(cells, "mw").v > 0

\* The row's only defect is a required field that is no number.
NonNumericRow(cells) ==
    /\ \E i \in DOMAIN Required :
          CellOf(cells, Required[i]).t \in {"text", "empty"}
    /\ \A i \in DOMAIN Required :
          LET c == CellOf(cells, Required[i])
          IN \/ c.t \in {"num", "text", "empty"}
             \/ c.t = "inf" /\ Required[i] \notin CountFields

Indices == [i \in 1..Len(infile) |-> i]
GoodIndices == SelectSeq(Indices, LAMBDA i : WellFormedRow(infile[i]))
BadIndices == SelectSeq(Indices, LAMBDA i : ~WellFormedRow(infile[i]))
Messages(kind) == SelectSeq(printed, LAMBDA m : m.msg = kind)

\* The output line agrees with the input row on every original column
\* other than one named bbb_score, and ends with a score.
SameRow(line, cells) ==
    /\ Len(line) = Len(fieldnames) + 1
    /\ line[Len(line)].t = "dec6"
    /\ \A p \in DOMAIN fieldnames :
          fieldnames[p] # "bbb_score" => line[p] = cells[p]

\* C2: one bad row (non-numeric field, missing field, infinite count, or a
\* row the scorer raises on) never aborts the batch: every other row still
\* reaches the output.
C2_Isolation ==
    (/\ Finished /\ input_exists /\ output_mode = "ok"
     /\ fieldnames # None /\ HasAllColumns
     /\ \A i \in DOMAIN infile : Len(infile[i]) <= Len(fieldnames)
     /\ Len(GoodIndices) >= 1)
    => /\ outfile.opened
       /\ Len(outfile.rows) = Len(GoodIndices)

C3_Pre ==
    /\ input_exists /\ output_mode = "ok"
    /\ fieldnames # None /\ HasAllColumns
    /\ \A i \in DOMAIN infile :
          /\ Len(infile[i]) = Len(fieldnames)
          /\ WellFormedRow(infile[i]) \/ NonNumericRow(infile[i])

SourceOf(j) == infile[Messages("score")[j].n - 1]

\* C4: every retained row reaches the output with all its original columns
\* unchanged, in the original order, and the score appended last; also
\* when the header already has a bbb_score column and when a row has more
\* cells than the header.
C4_Preserved ==
    (Finished /\ outfile.opened) =>
        /\ outfile.header = fieldnames \o <<"bbb_score">>
        /\ Len(outfile.rows) = Len(rows_with_scores)
        /\ \A j \in DOMAIN outfile.rows :
              /\ Len(outfile.rows[j]) = Len(fieldnames) + 1
              /\ outfile.rows[j][Len(fieldnames) + 1].t = "dec6"
              /\ \A p \in DOMAIN fieldnames :
                    p <= Len(SourceOf(j)) =>
                        outfile.rows[j][p] = SourceOf(j)[p]

Fatal(m) == m.msg \in {"not_found", "error"}

\* C5: a fatal file-level error (input missing, output not writable) is
\* reported exactly once and ends the run: the diagnostic is the last thing
\* printed, nothing further can happen and no success summary is printed.
C5_FatalOnce ==
    /\ \A i \in DOMAIN printed :
          Fatal(printed[i]) =>
              /\ i = Len(printed)
              /\ Finished
              /\ ~ENABLED Next
              /\ Messages("summary") = <<>>
              /\ Messages("saved") = <<>>
    /\ (Finished /\ (~input_exists \/ (fieldnames # None /\ output_mode # "ok")))
          => Fatal(printed[Len(printed)])

C5_Witness ==
    /\ Finished
    /\ output_mode = "denied"
    /\ Len(Messages("score")) = 2
    /\ printed[Len(printed)] = Msg("error", 0, "OSError")

RowLoopErrors == {"TypeError", "OverflowError", "ZeroDivisionError"}

\* C10: the output file is opened only after every input row has been read
\* and processed; a run that stops before that (input missing, no header,
\* an error escaping the row loop) never opens it.
C10_OutputAfterRows ==
    /\ outfile.opened =>
          /\ input_exists
          /\ fieldnames # None
          /\ row_idx = Len(infile)
          /\ Len(Messages("score")) + Len(Messages("skip")) = Len(infile)
    /\ (\/ ~input_exists
        \/ Messages("empty") # <<>>
        \/ \E i \in DOMAIN printed :
              printed[i].msg = "error" /\ printed[i].why \in RowLoopErrors)
          => outfile = Closed

C10_Witness ==
    /\ outfile.opened
    /\ Len(infile) = 2
    /\ Len(Messages("skip")) = 1
    /\ Len(outfile.rows) = 1

=============================================================================
